---- MODULE Spec2Model ----
\* A model of drone-runner-kube: the Kubernetes engine (engine/engine_impl.go)
\* and the stage runner (pkg/pipeline/runtime/runner.go).
\*
\* Three specifications share the module:
\*   Spec        the engine driving the steps of one stage on one pod
\*               (Run = start, waitForReady, tail, waitForTerminated), with the
\*               kubelet, an external writer of the pod, pod deletion and
\*               cancellation as the environment;
\*   SetupSpec   Setup and Destroy against the orchestrator's object store;
\*   RunnerSpec  Runner.Run / Runner.run against the control-plane client.
EXTENDS Integers, Sequences, FiniteSets, TLC

\* ------------------------------------------------------------------ bounds

\* exit codes a container may terminate with: 0..MaxExitCode
MaxExitCode == 1
\* number of writes an external client makes to the pod's annotations
MaxExtWrites == 1
\* number of times Setup is called for one Spec
MaxSetups == 2
\* number of steps of the Spec the compiler returns
MaxSpecSteps == 2
\* length of the list of a static secret provider
MaxSecrets == 2
\* number of providers given to Combine
MaxProviders == 2
\* number of steps of the Spec given to a compiler pass
MaxPassSteps == 3
\* length of a step's when.status.include
MaxInclude == 3

\* ------------------------------------------------------- program constants

\* backoff.Steps: the number of times RetryOnConflict calls the closure
BackoffSteps == 15

\* ------------------------------------------------------------------ images

\* An image reference: optional registry host, repository, optional tag.
MkImage(registry, repo, tag) == [registry |-> registry, repo |-> repo, tag |-> tag]

\* The sentinel image every container slot is created with.
Placeholder == MkImage("", "drone/placeholder", "1")

\* Normalized reference: the default registry prefix is stripped and a
\* missing tag defaults to latest.
Normalize(img) ==
    [registry |-> IF img.registry = "docker.io" THEN "" ELSE img.registry,
     repo     |-> img.repo,
     tag      |-> IF img.tag = "" THEN "latest" ELSE img.tag]

\* image.Match(from, to): equality of the normalized references.
Match(from, to) == Normalize(from) = Normalize(to)

\* The fully qualified form a container runtime may report for an image.
Expand(img) ==
    [registry |-> IF img.registry = "" THEN "docker.io" ELSE img.registry,
     repo     |-> img.repo,
     tag      |-> IF img.tag = "" THEN "latest" ELSE img.tag]

\* ------------------------------------------------------------------- steps

\* The steps of the stage; step.ID is the name of the step's container.
StepIDs == {"build", "test"}

\* step.Image
StepImage(s) == IF s = "build" THEN MkImage("", "golang", "") ELSE MkImage("docker.io", "alpine", "3")

\* step.Envs restricted to statusesWhiteList (one whitelisted key).
StepEnv(s) == s

NoStep == "-"
Nil == "nil"

Range(seq) == {seq[i] : i \in DOMAIN seq}

\* pod.Spec.Containers as toPod creates it: one slot per step, in step order,
\* each holding the placeholder image.
CreatedContainers ==
    << [name |-> "build", image |-> Placeholder],
       [name |-> "test",  image |-> Placeholder] >>

\* container statuses
NoStatus == [image |-> Placeholder, state |-> "none", exitCode |-> 0, oomKilled |-> FALSE]

\* the ways a container terminates: an exit code, and whether it was OOM-killed
Terminations ==
    { t \in [exitCode : 0..MaxExitCode, oomKilled : BOOLEAN] :
        t.oomKilled => t.exitCode # 0 }

VARIABLES
    podExists,        \* the pod object exists in the orchestrator
    podContainers,    \* pod.Spec.Containers: sequence of [name, image]
    podAnnotations,   \* pod.ObjectMeta.Annotations: [wl, ext]
    podStatus,        \* pod.Status.ContainerStatuses by container name
    podUpdateMutex,   \* spec.podUpdateMutex: the step holding it, or NoStep
    got,              \* per step: the pod object returned by Get in start
    pc,               \* per step: where Run is
    attempts,         \* per step: closure calls made by RetryOnConflict
    tailLine,         \* per step: source line of the current tail call
    result,           \* per step: what Run returned: [state, err, returned]
    ctxDone,          \* the context passed to Run is cancelled
    retryLogs         \* DRONE_FEATURE_FLAG_RETRY_LOGS == "true"

engineVars ==
    << podExists, podContainers, podAnnotations, podStatus, podUpdateMutex, got,
       pc, attempts, tailLine, result, ctxDone, retryLogs >>

VARIABLES
    specNamespace,    \* spec.Namespace != "": the stage owns its namespace
    specPullSecret,   \* spec.PullSecret != nil
    store,            \* the objects the orchestrator holds
    lcPc,             \* where Setup or Destroy is
    lcCalls,          \* the Create/Delete calls of the current operation
    lcResult,         \* the errors the current operation returns (none: nil)
    setups,           \* number of Setup calls made
    created,          \* the objects a Create of Setup has put in the store
    createdBefore     \* `created` when the current Setup call began

lifecycleVars ==
    << specNamespace, specPullSecret, store, lcPc, lcCalls, lcResult, setups,
       created, createdBefore >>

VARIABLES
    rPc,              \* where Runner.Run / RunAccepted / run is
    rEntry,           \* the method called: "Run" or "RunAccepted"
    rCalls,           \* the calls made to the client, reporter, compiler, ...
    rResult,          \* what the method returned: [returned, err]
    stageMachine,     \* stage.Machine
    stageSteps,       \* stage.Steps
    stageStatus,      \* stage.Status
    stageError,       \* stage.Error
    entered,          \* run was entered: its three contexts exist
    ctxErr,           \* Err() of ctx, ctxdone, ctxtimeout, ctxcancel
    wPc,              \* where the goroutine watching for cancellation is
    watchResult,      \* what Client.Watch returned to it
    buildCancelled,   \* the build is cancelled on the server
    compiledSpec      \* the steps of the Spec that Compiler.Compile returned

runnerVars ==
    << rPc, rEntry, rCalls, rResult, stageMachine, stageSteps, stageStatus,
       stageError, entered, ctxErr, wPc, watchResult, buildCancelled,
       compiledSpec >>

VARIABLES
    sDeps,            \* per step of the plan: depends_on
    sRunPolicy,       \* per step: run-policy
    sErrPolicy,       \* per step: err-policy
    sStatus,          \* State: per-step status
    sCancelled        \* the cancellation signal was given

schedVars == << sDeps, sRunPolicy, sErrPolicy, sStatus, sCancelled >>

VARIABLES
    fnName,           \* the function called: Find, List, configureSerial, ...
    fnInput,          \* its arguments (and receiver)
    fnOutput,         \* what it returned
    fnPc              \* "ready" before the call, "done" after it

callVars == << fnName, fnInput, fnOutput, fnPc >>

vars == << engineVars, lifecycleVars, runnerVars, schedVars, callVars >>

otherThanEngine == << lifecycleVars, runnerVars, schedVars, callVars >>
otherThanLifecycle == << engineVars, runnerVars, schedVars, callVars >>
otherThanRunner == << engineVars, lifecycleVars, schedVars, callVars >>
otherThanSched == << engineVars, lifecycleVars, runnerVars, callVars >>
otherThanCall == << engineVars, lifecycleVars, runnerVars, schedVars >>

NoPod == [containers |-> << >>, annotations |-> [wl |-> NoStep, ext |-> 0], fresh |-> FALSE]
NoState == [Exited |-> FALSE, ExitCode |-> 0, OOMKilled |-> FALSE]
NoResult == [state |-> NoState, err |-> Nil, returned |-> FALSE]

\* --------------------------------------------------------------- the pod

\* An orchestrator write to the pod object changes its resourceVersion:
\* every copy read before the write is stale from then on.
Stale(g) == [s \in StepIDs |-> [g[s] EXCEPT !.fresh = FALSE]]

\* The image of container c in a container list (Placeholder if absent).
ImageOf(containers, c) ==
    IF \E i \in DOMAIN containers : containers[i].name = c
    THEN (CHOOSE x \in {containers[i] : i \in DOMAIN containers} : x.name = c).image
    ELSE Placeholder

Names(containers) == [i \in DOMAIN containers |-> containers[i].name]

\* --------------------------------------------------------- Kubernetes.start

SwapAllContainers(containers, step) ==
    [i \in DOMAIN containers |-> [containers[i] EXCEPT !.image = StepImage(step)]]

\* the loop over pod.Spec.Containers: the image of the container named
\* step.ID becomes step.Image
SwapContainers(containers, step) ==
    [i \in DOMAIN containers |->
        IF containers[i].name = step
        THEN [containers[i] EXCEPT !.image = StepImage(step)]
        ELSE containers[i]]

ResetAnnotations(containers, annotations, step) ==
    IF \E i \in DOMAIN containers : containers[i].name = step
    THEN [wl |-> StepEnv(step), ext |-> 0]
    ELSE annotations

\* ... and the whitelisted annotations are set from step.Envs, in the
\* annotations the pod already has
SwapAnnotations(containers, annotations, step) ==
    IF \E i \in DOMAIN containers : containers[i].name = step
    THEN [annotations EXCEPT !.wl = StepEnv(step)]
    ELSE annotations

\* Pods().Update answers Conflict when the object's resourceVersion is not
\* the stored one.
UpdateNeverConflicts(g) == FALSE
UpdateConflicts(g) == ~g.fresh

\* Run is called for a step.
RunBegin(s) ==
    /\ pc[s] = "idle"
    /\ pc' = [pc EXCEPT ![s] = "start"]
    /\ UNCHANGED << podExists, podContainers, podAnnotations, podStatus,
                    podUpdateMutex, got, attempts, tailLine, result, ctxDone,
                    retryLogs >>
    /\ UNCHANGED otherThanEngine

\* Run returns (nil, err).
Fail(s, err) ==
    /\ pc' = [pc EXCEPT ![s] = "returned"]
    /\ result' = [result EXCEPT ![s] = [state |-> NoState, err |-> err, returned |-> TRUE]]

\* One call of the closure, first half: Lock, then Pods().Get. A Get error is
\* no conflict: the deferred Unlock runs and RetryOnConflict returns it.
StartGet(s) ==
    /\ pc[s] = "start"
    /\ podUpdateMutex = NoStep
    /\ IF podExists
       THEN /\ podUpdateMutex' = s
            /\ got' = [got EXCEPT ![s] = [containers |-> podContainers,
                                          annotations |-> podAnnotations,
                                          fresh |-> TRUE]]
            /\ pc' = [pc EXCEPT ![s] = "update"]
            /\ attempts' = [attempts EXCEPT ![s] = @ + 1]
            /\ UNCHANGED result
       ELSE /\ Fail(s, "start: not found")
            /\ attempts' = [attempts EXCEPT ![s] = 0]
            /\ UNCHANGED << podUpdateMutex, got >>
    /\ UNCHANGED << podExists, podContainers, podAnnotations, podStatus, tailLine,
                    ctxDone, retryLogs >>
    /\ UNCHANGED otherThanEngine

RetriesNeverExhausted(n) == FALSE

\* RetryOnConflict gives up when backoff.Steps calls of the closure were made
RetriesExhausted(n) == n >= BackoffSteps

\* the error of Pods().Update for the copy the closure holds
UpdateError(g) ==
    IF ~podExists THEN "start: not found"
    ELSE IF UpdateConflicts(g) THEN "start: conflict"
    ELSE Nil

UnlockOnSuccess(holder, err) == IF err = Nil THEN NoStep ELSE holder

\* the deferred Unlock runs however the closure returns
Unlock(holder, err) == NoStep

\* One call of the closure, second half: swap the image, Pods().Update, and
\* the deferred Unlock. A Conflict is retried until backoff.Steps calls were
\* made; then RetryOnConflict returns the conflict.
StartUpdate(s) ==
    /\ pc[s] = "update"
    /\ podUpdateMutex' = Unlock(s, UpdateError(got[s]))
    /\ got' = IF podExists /\ ~UpdateConflicts(got[s])
              THEN [Stale(got) EXCEPT ![s] = NoPod]
              ELSE [got EXCEPT ![s] = NoPod]
    /\ IF ~podExists
       THEN /\ Fail(s, "start: not found")
            /\ attempts' = [attempts EXCEPT ![s] = 0]
            /\ UNCHANGED << podContainers, podAnnotations >>
       ELSE IF UpdateConflicts(got[s])
       THEN /\ IF RetriesExhausted(attempts[s])
               THEN /\ Fail(s, "start: conflict")
                    /\ attempts' = [attempts EXCEPT ![s] = 0]
               ELSE /\ pc' = [pc EXCEPT ![s] = "start"]
                    /\ UNCHANGED << attempts, result >>
            /\ UNCHANGED << podContainers, podAnnotations >>
       ELSE /\ podContainers' = SwapContainers(got[s].containers, s)
            /\ podAnnotations' = SwapAnnotations(got[s].containers, got[s].annotations, s)
            /\ pc' = [pc EXCEPT ![s] = "ready"]
            /\ attempts' = [attempts EXCEPT ![s] = 0]
            /\ UNCHANGED result
    /\ UNCHANGED << podExists, podStatus, tailLine, ctxDone, retryLogs >>
    /\ UNCHANGED otherThanEngine

\* ------------------------------------------------------- Kubernetes.waitFor

StatusOfFirst(step) ==
    IF DOMAIN podStatus # {}
    THEN podStatus[CHOOSE c \in DOMAIN podStatus : TRUE]
    ELSE NoStatus

\* the entry of pod.Status.ContainerStatuses named step.ID, if any
StatusOf(step) == IF step \in DOMAIN podStatus THEN podStatus[step] ELSE NoStatus

ReadyWhenRunning(cs) ==
    /\ cs.state # "none"
    /\ cs.state \in {"running", "terminated"}

\* waitForReady's condition on the step's container status
ReadyCond(cs) ==
    /\ cs.state # "none"
    /\ ~Match(cs.image, Placeholder)
    /\ cs.state \in {"running", "terminated"}

TerminatedWhenRunning(cs) ==
    /\ cs.state # "none"
    /\ ~Match(cs.image, Placeholder)
    /\ cs.state \in {"running", "terminated"}

\* waitForTerminated's condition on the step's container status
TerminatedCond(cs) ==
    /\ cs.state # "none"
    /\ ~Match(cs.image, Placeholder)
    /\ cs.state = "terminated"

WaitErrorOnContextOnly(err) == ctxDone /\ err = "wait: timeout"

\* waitFor returns an error: the context is done (UntilWithSync gives up), or
\* the pod is gone (the store holds no such pod, or a Deleted event arrives).
WaitError(err) ==
    \/ ctxDone /\ err = "wait: timeout"
    \/ ~podExists /\ err = "wait: pod missing"

WaitForReady(s) ==
    /\ pc[s] = "ready"
    /\ \/ \E err \in {"wait: timeout", "wait: pod missing"} :
            /\ WaitError(err)
            /\ Fail(s, err)
            /\ UNCHANGED tailLine
       \/ /\ podExists
          /\ ReadyCond(StatusOf(s))
          /\ pc' = [pc EXCEPT ![s] = "tail"]
          /\ tailLine' = [tailLine EXCEPT ![s] = 180]
          /\ UNCHANGED result
    /\ UNCHANGED << podExists, podContainers, podAnnotations, podStatus,
                    podUpdateMutex, got, attempts, ctxDone, retryLogs >>
    /\ UNCHANGED otherThanEngine

\* ---------------------------------------------------------- Kubernetes.tail

\* Where Run goes after the tail call at `line` returned err (lines 188-203):
\* the line of the next tail call, or 199 when no further call is made.
AfterTail(line, err, flag) ==
    IF line = 180
    THEN IF err = Nil THEN 199 ELSE IF flag THEN 191 ELSE 195
    ELSE IF line = 191
    THEN IF err = Nil THEN 199 ELSE 195
    ELSE 199

\* The tail call at tailLine[s] returned err.
TailReturned(s, err) ==
    LET next == AfterTail(tailLine[s], err, retryLogs) IN
    IF next = 199
    THEN /\ tailLine' = [tailLine EXCEPT ![s] = 0]
         /\ IF err = Nil
            THEN /\ pc' = [pc EXCEPT ![s] = "terminated"]
                 /\ UNCHANGED result
            ELSE Fail(s, err)
    ELSE /\ pc' = [pc EXCEPT ![s] = "tail"]
         /\ tailLine' = [tailLine EXCEPT ![s] = next]
         /\ UNCHANGED result

\* req.Stream(): the log stream opens, or the request fails.
TailOpen(s) ==
    /\ pc[s] = "tail"
    /\ \/ /\ podExists
          /\ pc' = [pc EXCEPT ![s] = "tailing"]
          /\ UNCHANGED << result, tailLine >>
       \/ TailReturned(s, "tail: error")
    /\ UNCHANGED << podExists, podContainers, podAnnotations, podStatus,
                    podUpdateMutex, got, attempts, ctxDone, retryLogs >>
    /\ UNCHANGED otherThanEngine

\* livelog.Copy returns: the stream ended (nil) or a read failed.
TailCopy(s) ==
    /\ pc[s] = "tailing"
    /\ \E err \in {Nil, "tail: error"} : TailReturned(s, err)
    /\ UNCHANGED << podExists, podContainers, podAnnotations, podStatus,
                    podUpdateMutex, got, attempts, ctxDone, retryLogs >>
    /\ UNCHANGED otherThanEngine

\* ------------------------------------------------ Kubernetes.waitForTerminated

\* the State waitForTerminated fills in from the accepted status
StateOf(cs) == [Exited |-> TRUE, ExitCode |-> cs.exitCode, OOMKilled |-> FALSE]

WaitForTerminated(s) ==
    /\ pc[s] = "terminated"
    /\ \/ \E err \in {"wait: timeout", "wait: pod missing"} :
            /\ WaitError(err)
            /\ Fail(s, err)
       \/ /\ podExists
          /\ TerminatedCond(StatusOf(s))
          /\ pc' = [pc EXCEPT ![s] = "returned"]
          /\ result' = [result EXCEPT ![s] = [state |-> StateOf(StatusOf(s)), err |-> Nil, returned |-> TRUE]]
    /\ UNCHANGED << podExists, podContainers, podAnnotations, podStatus,
                    podUpdateMutex, got, attempts, tailLine, ctxDone, retryLogs >>
    /\ UNCHANGED otherThanEngine

\* ------------------------------------------------------------- environment

\* The kubelet reports a container: it is created with the image of the pod
\* spec (reported fully qualified), starts, terminates; a container whose
\* image differs from the pod spec is restarted with the new image. Each
\* report is a write to the pod object.
Kubelet(c) ==
    /\ podExists
    /\ c \in DOMAIN podStatus
    /\ LET cs  == podStatus[c]
           img == ImageOf(podContainers, c) IN
       \/ /\ cs.state = "none" \/ ~Match(cs.image, img)
          /\ podStatus' = [podStatus EXCEPT ![c] = [NoStatus EXCEPT !.image = Expand(img), !.state = "waiting"]]
       \/ /\ cs.state = "waiting"
          /\ podStatus' = [podStatus EXCEPT ![c].state = "running"]
       \/ /\ cs.state = "running"
          /\ \E t \in Terminations :
                podStatus' = [podStatus EXCEPT ![c] = [image |-> cs.image, state |-> "terminated",
                                                      exitCode |-> t.exitCode, oomKilled |-> t.oomKilled]]
    /\ got' = Stale(got)
    /\ UNCHANGED << podExists, podContainers, podAnnotations, podUpdateMutex, pc,
                    attempts, tailLine, result, ctxDone, retryLogs >>
    /\ UNCHANGED otherThanEngine

\* Another client of the orchestrator writes a part of the pod object that
\* start does not touch (a label, the status): only the resourceVersion of
\* the pod changes.
ForeignUpdate ==
    /\ podExists
    /\ \E s \in StepIDs : got[s].fresh
    /\ got' = Stale(got)
    /\ UNCHANGED << podExists, podContainers, podAnnotations, podStatus,
                    podUpdateMutex, pc, attempts, tailLine, result, ctxDone,
                    retryLogs >>
    /\ UNCHANGED otherThanEngine

\* Another client of the orchestrator updates an annotation of the pod.
ExternalWrite ==
    /\ podExists
    /\ podAnnotations.ext < MaxExtWrites
    /\ podAnnotations' = [podAnnotations EXCEPT !.ext = @ + 1]
    /\ got' = Stale(got)
    /\ UNCHANGED << podExists, podContainers, podStatus, podUpdateMutex, pc,
                    attempts, tailLine, result, ctxDone, retryLogs >>
    /\ UNCHANGED otherThanEngine

\* The pod is deleted (Destroy, or anyone else).
DeletePod ==
    /\ podExists
    /\ podExists' = FALSE
    /\ UNCHANGED << podContainers, podAnnotations, podStatus, podUpdateMutex, got,
                    pc, attempts, tailLine, result, ctxDone, retryLogs >>
    /\ UNCHANGED otherThanEngine

\* The context passed to Run is cancelled.
Cancel ==
    /\ ~ctxDone
    /\ ctxDone' = TRUE
    /\ UNCHANGED << podExists, podContainers, podAnnotations, podStatus,
                    podUpdateMutex, got, pc, attempts, tailLine, result,
                    retryLogs >>
    /\ UNCHANGED otherThanEngine

\* =================================================== Setup and Destroy

\* spec.Namespace, spec.PullSecret.Name, spec.PodSpec.Name
NamespaceName == "drone-ns"
PullSecretName == "pull"
PodName == "drone-pod"

Object(kind, name) == [kind |-> kind, name |-> name]

\* the objects Setup builds from the Spec
toNamespace == Object("Namespace", NamespaceName)
toDockerConfigSecret == Object("Secret", PullSecretName)
toSecret == Object("Secret", PodName)
toPod == Object("Pod", PodName)

\* Create answers AlreadyExists for an object the store holds; otherwise it
\* creates the object, or fails for a reason of the orchestrator's.
CreateOutcomes(obj) ==
    IF obj \in store THEN {"already exists"} ELSE {Nil, "server error"}

\* Delete answers NotFound for an object the store does not hold; otherwise
\* it deletes the object, or fails for a reason of the orchestrator's.
DeleteOutcomes(obj) ==
    IF obj \notin store THEN {"not found"} ELSE {Nil, "server error"}

AfterCreateIgnoringError(err, next) == next

\* Setup after a Create: `return err` on an error, else the next block.
AfterCreate(err, next) == IF err # Nil THEN "Setup.returned" ELSE next

AfterDeleteReturningError(err, next) == IF err # Nil THEN "Destroy.returned" ELSE next

\* Destroy after a Delete: the next block, whatever the Delete returned.
AfterDelete(err, next) == next

\* multierror.Append(result, err), called when err != nil
AppendError(errs, err) == IF err # Nil THEN Append(errs, err) ELSE errs

\* One block of Setup: when `declared`, Create obj.
SetupBlock(declared, obj, next) ==
    /\ IF declared
       THEN \E err \in CreateOutcomes(obj) :
               /\ store' = IF err = Nil THEN store \cup {obj} ELSE store
               /\ created' = IF err = Nil THEN created \cup {obj} ELSE created
               /\ lcCalls' = Append(lcCalls, [verb |-> "create", obj |-> obj, err |-> err])
               /\ lcResult' = AppendError(lcResult, err)
               /\ lcPc' = AfterCreate(err, next)
       ELSE /\ lcPc' = next
            /\ UNCHANGED << store, created, lcCalls, lcResult >>
    /\ UNCHANGED << specNamespace, specPullSecret, setups, createdBefore >>
    /\ UNCHANGED otherThanLifecycle

\* Setup is called.
SetupBegin ==
    /\ lcPc \in {"idle", "Setup.returned"}
    /\ setups < MaxSetups
    /\ setups' = setups + 1
    /\ lcPc' = "Setup.namespace"
    /\ lcCalls' = << >>
    /\ lcResult' = << >>
    /\ createdBefore' = created
    /\ UNCHANGED << specNamespace, specPullSecret, store, created >>
    /\ UNCHANGED otherThanLifecycle

SetupNamespace ==
    /\ lcPc = "Setup.namespace"
    /\ SetupBlock(specNamespace, toNamespace, "Setup.pullsecret")

SetupPullSecret ==
    /\ lcPc = "Setup.pullsecret"
    /\ SetupBlock(specPullSecret, toDockerConfigSecret, "Setup.secret")

SetupSecret ==
    /\ lcPc = "Setup.secret"
    /\ SetupBlock(TRUE, toSecret, "Setup.pod")

SetupPod ==
    /\ lcPc = "Setup.pod"
    /\ SetupBlock(TRUE, toPod, "Setup.returned")


\* One block of Destroy: when `declared`, Delete the object of that kind and
\* name and append its error to the result.
DestroyBlock(declared, obj, next) ==
    /\ IF declared
       THEN \E err \in DeleteOutcomes(obj) :
               /\ store' = IF err = Nil THEN store \ {obj} ELSE store
               /\ lcCalls' = Append(lcCalls, [verb |-> "delete", obj |-> obj, err |-> err])
               /\ lcResult' = AppendError(lcResult, err)
               /\ lcPc' = AfterDelete(err, next)
       ELSE /\ lcPc' = next
            /\ UNCHANGED << store, lcCalls, lcResult >>
    /\ UNCHANGED << specNamespace, specPullSecret, setups, created, createdBefore >>
    /\ UNCHANGED otherThanLifecycle

\* Destroy is called, after Setup returned (with or without an error).
DestroyBegin ==
    /\ lcPc = "Setup.returned"
    /\ lcPc' = "Destroy.pullsecret"
    /\ lcCalls' = << >>
    /\ lcResult' = << >>
    /\ UNCHANGED << specNamespace, specPullSecret, store, setups, created, createdBefore >>
    /\ UNCHANGED otherThanLifecycle

DestroyPullSecret ==
    /\ lcPc = "Destroy.pullsecret"
    /\ DestroyBlock(specPullSecret, Object("Secret", PullSecretName), "Destroy.secret")

DestroySecret ==
    /\ lcPc = "Destroy.secret"
    /\ DestroyBlock(TRUE, Object("Secret", PodName), "Destroy.pod")

DestroyPod ==
    /\ lcPc = "Destroy.pod"
    /\ DestroyBlock(TRUE, Object("Pod", PodName), "Destroy.namespace")

DestroyNamespace ==
    /\ lcPc = "Destroy.namespace"
    /\ DestroyBlock(specNamespace, Object("Namespace", NamespaceName), "Destroy.returned")


\* ============================================================== Runner

\* s.Machine
Machine == "runner-1"

\* client.ErrOptimisticLock
ErrOptimisticLock == "optimistic lock"

\* the contexts of run, outermost first: each is derived from the one before
Contexts == << "ctx", "ctxdone", "ctxtimeout", "ctxcancel" >>

Depth(c) == CHOOSE i \in DOMAIN Contexts : Contexts[i] = c

\* Context c is done with err: so is every context derived from it that is
\* not done yet, with the same err. A context that is done keeps its Err.
CancelContext(errs, c, err) ==
    [x \in DOMAIN errs |->
        IF Depth(x) >= Depth(c) /\ errs[x] = Nil THEN err ELSE errs[x]]

\* RunPolicy and ErrPolicy of a compiled step
RunPolicies == {"RunAlways", "RunOnSuccess", "RunOnFailure", "RunNever"}
ErrPolicies == {"ErrFail", "ErrIgnore"}

StepNames == << "clone", "build", "test" >>

\* the Specs the compiler may return: up to MaxSpecSteps steps
CompiledSpecs ==
    UNION { { [i \in 1..n |-> [name |-> StepNames[i],
                               runPolicy |-> f[i][1],
                               errPolicy |-> f[i][2]]] :
                f \in [1..n -> RunPolicies \X ErrPolicies] } :
            n \in 0..MaxSpecSteps }

\* the steps the stage may hold when the runner receives it
ReceivedSteps ==
    { << >>,
      << [Name |-> "restored", Number |-> 1, Status |-> "pending",
          ErrIgnore |-> FALSE, Error |-> ""] >> }

RECURSIVE PopulateFromIndexed(_, _, _)
PopulateFromIndexed(steps, spec, i) ==
    IF i > Len(spec) THEN steps
    ELSE IF spec[i].runPolicy = "RunNever"
    THEN PopulateFromIndexed(steps, spec, i + 1)
    ELSE PopulateFromIndexed(
            Append(steps, [Name |-> spec[i].name,
                           Number |-> i,
                           Status |-> "pending",
                           ErrIgnore |-> (spec[i].errPolicy = "ErrIgnore"),
                           Error |-> ""]),
            spec, i + 1)

RECURSIVE PopulateFrom(_, _, _)
\* the loop over the Spec's steps (lines 256-271), from index i on
PopulateFrom(steps, spec, i) ==
    IF i > Len(spec) THEN steps
    ELSE IF spec[i].runPolicy = "RunNever"
    THEN PopulateFrom(steps, spec, i + 1)
    ELSE PopulateFrom(
            Append(steps, [Name |-> spec[i].name,
                           Number |-> Len(steps) + 1,
                           Status |-> "pending",
                           ErrIgnore |-> (spec[i].errPolicy = "ErrIgnore"),
                           Error |-> ""]),
            spec, i + 1)

\* state.FailAll(err): every step of the stage fails with err
FailAllSteps(steps, err) ==
    [i \in DOMAIN steps |-> [steps[i] EXCEPT !.Status = "error", !.Error = err]]

Call(op, arg, ret) == [op |-> op, arg |-> arg, ret |-> ret]

\* The method returns err; the deferred cancel functions of run, if run was
\* entered, cancel ctxcancel, ctxtimeout and ctxdone.
Return(err, fromRun) ==
    /\ rPc' = "returned"
    /\ rResult' = [returned |-> TRUE, err |-> err]
    /\ ctxErr' = IF fromRun THEN CancelContext(ctxErr, "ctxdone", "canceled") ELSE ctxErr

\* Run, up to the assignment of the machine tag (lines 69-81)
RunnerRun ==
    /\ rPc = "idle"
    /\ rEntry' = "Run"
    /\ stageMachine' = Machine
    /\ rPc' = "accept"
    /\ UNCHANGED << rCalls, rResult, stageSteps, stageStatus, stageError, entered,
                    ctxErr, wPc, watchResult, buildCancelled >>
    /\ UNCHANGED compiledSpec
    /\ UNCHANGED otherThanRunner

AfterAcceptAnyError(err) ==
    IF err # Nil THEN [return |-> TRUE, err |-> err]
    ELSE [return |-> FALSE, err |-> Nil]

\* what Run does with the error of Client.Accept (lines 83-90)
AfterAccept(err) ==
    IF err # Nil /\ err = ErrOptimisticLock THEN [return |-> TRUE, err |-> Nil]
    ELSE IF err # Nil THEN [return |-> TRUE, err |-> err]
    ELSE [return |-> FALSE, err |-> Nil]

\* Client.Accept and what follows it (lines 82-92)
RunnerAccept ==
    /\ rPc = "accept"
    /\ \E err \in {Nil, ErrOptimisticLock, "accept error"} :
          /\ rCalls' = Append(rCalls, Call("Accept", stageMachine, err))
          /\ IF AfterAccept(err).return
             THEN Return(AfterAccept(err).err, FALSE)
             ELSE /\ rPc' = "detail"
                  /\ UNCHANGED << rResult, ctxErr >>
    /\ UNCHANGED << rEntry, stageMachine, stageSteps, stageStatus, stageError,
                    entered, wPc, watchResult, buildCancelled >>
    /\ UNCHANGED compiledSpec
    /\ UNCHANGED otherThanRunner

\* RunAccepted is called for an accepted stage (lines 112-114)
RunnerRunAccepted ==
    /\ rPc = "idle"
    /\ rEntry' = "RunAccepted"
    /\ rPc' = "detail"
    /\ UNCHANGED << rCalls, rResult, stageMachine, stageSteps, stageStatus,
                    stageError, entered, ctxErr, wPc, watchResult, buildCancelled >>
    /\ UNCHANGED compiledSpec
    /\ UNCHANGED otherThanRunner

\* Client.Detail (lines 94-98, 116-120)
RunnerDetail ==
    /\ rPc = "detail"
    /\ \E err \in {Nil, "detail error"} :
          /\ rCalls' = Append(rCalls, Call("Detail", "", err))
          /\ IF err # Nil
             THEN Return(err, FALSE)
             ELSE /\ rPc' = "run"
                  /\ UNCHANGED << rResult, ctxErr >>
    /\ UNCHANGED << rEntry, stageMachine, stageSteps, stageStatus, stageError,
                    entered, wPc, watchResult, buildCancelled >>
    /\ UNCHANGED compiledSpec
    /\ UNCHANGED otherThanRunner

\* run creates its contexts and starts the watching goroutine (lines 143-164)
RunnerEnter ==
    /\ rPc = "run"
    /\ entered' = TRUE
    /\ wPc' = "spawned"
    /\ rPc' = "match"
    /\ UNCHANGED << rEntry, rCalls, rResult, stageMachine, stageSteps, stageStatus,
                    stageError, ctxErr, watchResult, buildCancelled >>
    /\ UNCHANGED compiledSpec
    /\ UNCHANGED otherThanRunner

\* state.FailAll(err); return s.Reporter.ReportStage(noContext, state)
FailAllAndReport(err) ==
    /\ stageSteps' = FailAllSteps(stageSteps, err)
    /\ stageStatus' = "error"
    /\ stageError' = err
    /\ \E rerr \in {Nil, "report error"} :
          /\ rCalls' = Append(rCalls, Call("ReportStage", err, rerr))
          /\ Return(rerr, TRUE)

\* s.Match (lines 197-201): not set, or it admits or rejects the build
RunnerMatch ==
    /\ rPc = "match"
    /\ \E m \in {"nil", "true", "false"} :
          IF m = "false"
          THEN FailAllAndReport("insufficient permission to run the pipeline")
          ELSE /\ rPc' = "eval"
               /\ UNCHANGED << rCalls, rResult, stageSteps, stageStatus, stageError, ctxErr >>
    /\ UNCHANGED << rEntry, stageMachine, entered, wPc, watchResult, buildCancelled >>
    /\ UNCHANGED compiledSpec
    /\ UNCHANGED otherThanRunner

AfterConfigIgnoringError(err) == FALSE

\* after envsubst.Eval, manifest.ParseString, s.Lookup, s.Lint: err != nil
\* ends run
AfterConfig(err) == err # Nil

\* one of the four configuration steps (lines 205-235)
ConfigStep(op, next) ==
    /\ \E err \in {Nil, "config error"} :
          IF AfterConfig(err)
          THEN /\ stageSteps' = FailAllSteps(stageSteps, err)
               /\ stageStatus' = "error"
               /\ stageError' = err
               /\ \E rerr \in {Nil, "report error"} :
                     /\ rCalls' = rCalls \o << Call(op, "", err), Call("ReportStage", err, rerr) >>
                     /\ Return(rerr, TRUE)
          ELSE /\ rCalls' = Append(rCalls, Call(op, "", err))
               /\ rPc' = next
               /\ UNCHANGED << rResult, stageSteps, stageStatus, stageError, ctxErr >>
    /\ UNCHANGED << rEntry, stageMachine, entered, wPc, watchResult, buildCancelled >>
    /\ UNCHANGED compiledSpec
    /\ UNCHANGED otherThanRunner

RunnerEval ==
    /\ rPc = "eval"
    /\ ConfigStep("Eval", "parse")

RunnerParse ==
    /\ rPc = "parse"
    /\ ConfigStep("Parse", "lookup")

RunnerLookup ==
    /\ rPc = "lookup"
    /\ ConfigStep("Lookup", "lint")

RunnerLint ==
    /\ rPc = "lint"
    /\ ConfigStep("Lint", "compile")

\* Compiler.Compile and the stage's steps filled in from the Spec
\* (lines 237-271)
RunnerCompile ==
    /\ rPc = "compile"
    /\ \E spec \in CompiledSpecs :
          /\ rCalls' = Append(rCalls, Call("Compile", "", Nil))
          /\ compiledSpec' = spec
          /\ stageSteps' = PopulateFrom(stageSteps, spec, 1)
    /\ rPc' = "update"
    /\ UNCHANGED << rEntry, rResult, stageMachine, stageStatus, stageError, entered,
                    ctxErr, wPc, watchResult, buildCancelled >>
    /\ UNCHANGED otherThanRunner

\* the stage is marked running and sent to the server (lines 273-280)
RunnerUpdate ==
    /\ rPc = "update"
    /\ stageStatus' = "running"
    /\ \E err \in {Nil, "update error"} :
          /\ rCalls' = Append(rCalls, Call("Update", "", err))
          /\ IF err # Nil
             THEN Return(err, TRUE)
             ELSE /\ rPc' = "exec"
                  /\ UNCHANGED << rResult, ctxErr >>
    /\ UNCHANGED << rEntry, stageMachine, stageSteps, stageError, entered, wPc,
                    watchResult, buildCancelled >>
    /\ UNCHANGED compiledSpec
    /\ UNCHANGED otherThanRunner

\* s.Exec is called with ctxcancel (line 283)
RunnerExec ==
    /\ rPc = "exec"
    /\ rCalls' = Append(rCalls, Call("Exec", "ctxcancel", Nil))
    /\ rPc' = "execing"
    /\ UNCHANGED << rEntry, rResult, stageMachine, stageSteps, stageStatus,
                    stageError, entered, ctxErr, wPc, watchResult, buildCancelled >>
    /\ UNCHANGED compiledSpec
    /\ UNCHANGED otherThanRunner

\* s.Exec returns (lines 284-292)
RunnerExecReturn ==
    /\ rPc = "execing"
    /\ \E err \in {Nil, "exec error"} : Return(err, TRUE)
    /\ UNCHANGED << rEntry, rCalls, stageMachine, stageSteps, stageStatus,
                    stageError, entered, wPc, watchResult, buildCancelled >>
    /\ UNCHANGED compiledSpec
    /\ UNCHANGED otherThanRunner

\* the goroutine calls Client.Watch with ctxdone (line 157)
WatcherCall ==
    /\ wPc = "spawned"
    /\ wPc' = "watching"
    /\ rCalls' = Append(rCalls, Call("Watch", "ctxdone", Nil))
    /\ UNCHANGED << rPc, rEntry, rResult, stageMachine, stageSteps, stageStatus,
                    stageError, entered, ctxErr, watchResult, buildCancelled >>
    /\ UNCHANGED compiledSpec
    /\ UNCHANGED otherThanRunner

WatcherCancelsAlways(done) == TRUE

\* the goroutine calls cancel, the cancel function of ctxcancel, iff Watch
\* returned done (lines 158-163)
WatcherCancels(done) == done

\* Client.Watch returns: done when the build was cancelled; not done when
\* its request failed or its context is done.
WatcherReturn ==
    /\ wPc = "watching"
    /\ \E done \in BOOLEAN :
          /\ done => buildCancelled
          /\ watchResult' = IF done THEN "done" ELSE "not done"
          /\ ctxErr' = IF WatcherCancels(done)
                       THEN CancelContext(ctxErr, "ctxcancel", "canceled")
                       ELSE ctxErr
    /\ wPc' = "exited"
    /\ UNCHANGED << rPc, rEntry, rCalls, rResult, stageMachine, stageSteps,
                    stageStatus, stageError, entered, buildCancelled >>
    /\ UNCHANGED compiledSpec
    /\ UNCHANGED otherThanRunner

\* The build is cancelled on the server.
RemoteCancel ==
    /\ ~buildCancelled
    /\ buildCancelled' = TRUE
    /\ UNCHANGED << rPc, rEntry, rCalls, rResult, stageMachine, stageSteps,
                    stageStatus, stageError, entered, ctxErr, wPc, watchResult >>
    /\ UNCHANGED compiledSpec
    /\ UNCHANGED otherThanRunner

\* The caller cancels the context it passed to Run.
CallerCancel ==
    /\ ctxErr["ctx"] = Nil
    /\ ctxErr' = CancelContext(ctxErr, "ctx", "canceled")
    /\ UNCHANGED << rPc, rEntry, rCalls, rResult, stageMachine, stageSteps,
                    stageStatus, stageError, entered, wPc, watchResult,
                    buildCancelled >>
    /\ UNCHANGED compiledSpec
    /\ UNCHANGED otherThanRunner

\* The timeout of ctxtimeout (data.Repo.Timeout minutes) expires.
TimeoutExpire ==
    /\ entered
    /\ ctxErr["ctxtimeout"] = Nil
    /\ ctxErr' = CancelContext(ctxErr, "ctxtimeout", "deadline exceeded")
    /\ UNCHANGED << rPc, rEntry, rCalls, rResult, stageMachine, stageSteps,
                    stageStatus, stageError, entered, wPc, watchResult,
                    buildCancelled >>
    /\ UNCHANGED compiledSpec
    /\ UNCHANGED otherThanRunner

\* ======================================================= DAG scheduler

\* the steps of the plan, in Spec order
PlanSteps == << "clone", "build", "test" >>

PlanNames == Range(PlanSteps)

PlanIndex(s) == CHOOSE i \in DOMAIN PlanSteps : PlanSteps[i] = s

\* the dependency graphs of the plan: a step depends on earlier steps only
PlanGraphs ==
    { g \in [PlanNames -> SUBSET PlanNames] :
        \A s \in PlanNames : \A d \in g[s] : PlanIndex(d) < PlanIndex(s) }

Terminal == {"success", "failure", "skipped", "killed", "error"}

\* Success < Failure < Error < Killed; a skipped step counts as a success
Rank(status) ==
    IF status = "failure" THEN 1
    ELSE IF status = "error" THEN 2
    ELSE IF status = "killed" THEN 3
    ELSE 0

\* the status of a step as its descendants see it
SeenStatus(d) == IF sErrPolicy[d] = "ErrIgnore" THEN "success" ELSE sStatus[d]

\* dep_status: the worst of the dependencies
DepRank(s) ==
    IF sDeps[s] = {} THEN 0
    ELSE CHOOSE r \in 0..3 :
            /\ \E d \in sDeps[s] : Rank(SeenStatus(d)) = r
            /\ \A d \in sDeps[s] : Rank(SeenStatus(d)) <= r

DepsStarted(s) == \A d \in sDeps[s] : sStatus[d] # "pending"

\* every step in depends_on(s) is terminal
DepsTerminal(s) == \A d \in sDeps[s] : sStatus[d] \in Terminal

\* the run-policy of s is satisfied by the aggregate outcome of its deps
PolicySatisfied(s) ==
    IF sRunPolicy[s] = "RunAlways" THEN TRUE
    ELSE IF sRunPolicy[s] = "RunOnSuccess" THEN DepRank(s) = 0
    ELSE IF sRunPolicy[s] = "RunOnFailure" THEN DepRank(s) \in {1, 2}
    ELSE FALSE

\* An eligible step is dispatched: a worker calls Engine.Run for it.
Dispatch(s) ==
    /\ ~sCancelled
    /\ sStatus[s] = "pending"
    /\ DepsTerminal(s)
    /\ PolicySatisfied(s)
    /\ sStatus' = [sStatus EXCEPT ![s] = "running"]
    /\ UNCHANGED << sDeps, sRunPolicy, sErrPolicy, sCancelled >>
    /\ UNCHANGED otherThanSched

\* A step whose policy its dependencies do not satisfy is skipped.
SkipStep(s) ==
    /\ sStatus[s] = "pending"
    /\ DepsTerminal(s)
    /\ ~PolicySatisfied(s)
    /\ sStatus' = [sStatus EXCEPT ![s] = "skipped"]
    /\ UNCHANGED << sDeps, sRunPolicy, sErrPolicy, sCancelled >>
    /\ UNCHANGED otherThanSched

\* Engine.Run returned for a step: exit code 0, non-zero, or an engine
\* error; after cancellation the step is killed.
StepDone(s) ==
    /\ sStatus[s] = "running"
    /\ \E st \in {"success", "failure", "error", "killed"} :
          /\ (st = "killed") <=> sCancelled
          /\ sStatus' = [sStatus EXCEPT ![s] = st]
    /\ UNCHANGED << sDeps, sRunPolicy, sErrPolicy, sCancelled >>
    /\ UNCHANGED otherThanSched

\* The cancellation signal: every step not yet started is skipped.
SchedCancel ==
    /\ ~sCancelled
    /\ sCancelled' = TRUE
    /\ sStatus' = [s \in PlanNames |-> IF sStatus[s] = "pending" THEN "skipped" ELSE sStatus[s]]
    /\ UNCHANGED << sDeps, sRunPolicy, sErrPolicy >>
    /\ UNCHANGED otherThanSched

\* ============================================ secret and registry providers

\* drone.EventPullRequest
EventPullRequest == "pull_request"

SecretNames == {"token", "TOKEN", "key"}
RequestNames == {"Token", "KEY"}

\* Unicode simple case folding of the names in use
Fold(name) ==
    IF name \in {"token", "TOKEN", "Token"} THEN "token"
    ELSE IF name \in {"key", "KEY"} THEN "key"
    ELSE name

\* strings.EqualFold
EqualFold(a, b) == Fold(a) = Fold(b)

\* drone.Secret values
Secrets == [Name : SecretNames, PullRequest : BOOLEAN]

NoSecret == [Name |-> "", PullRequest |-> FALSE]

\* sequences over a set, of length up to n
SeqsUpTo(S, n) == UNION { [1..k -> S] : k \in 0..n }

\* Find's inputs: the provider's list and the request
FindInputs ==
    [secrets : SeqsUpTo(Secrets, MaxSecrets),
     Name : RequestNames,
     Event : {"push", EventPullRequest}]

RECURSIVE FindFromStoppingAtRestricted(_, _, _)
FindFromStoppingAtRestricted(secrets, in, i) ==
    IF i > Len(secrets)
    THEN [index |-> 0, secret |-> NoSecret, err |-> Nil]
    ELSE IF ~EqualFold(secrets[i].Name, in.Name)
    THEN FindFromStoppingAtRestricted(secrets, in, i + 1)
    ELSE IF ~secrets[i].PullRequest /\ in.Event = EventPullRequest
    THEN [index |-> 0, secret |-> NoSecret, err |-> Nil]
    ELSE [index |-> i, secret |-> secrets[i], err |-> Nil]

RECURSIVE FindFrom(_, _, _)
\* the loop of static.Find from index i on: the secret returned (index 0 and
\* NoSecret for nil) and the error
FindFrom(secrets, in, i) ==
    IF i > Len(secrets)
    THEN [index |-> 0, secret |-> NoSecret, err |-> Nil]
    ELSE IF ~EqualFold(secrets[i].Name, in.Name)
    THEN FindFrom(secrets, in, i + 1)
    ELSE IF ~secrets[i].PullRequest /\ in.Event = EventPullRequest
    THEN FindFrom(secrets, in, i + 1)
    ELSE [index |-> i, secret |-> secrets[i], err |-> Nil]

\* static.Find is called.
StaticFind ==
    /\ fnName = "Find"
    /\ fnPc = "ready"
    /\ fnOutput' = FindFrom(fnInput.secrets, fnInput, 1)
    /\ fnPc' = "done"
    /\ UNCHANGED << fnName, fnInput >>
    /\ UNCHANGED otherThanCall

\* drone.Registry values
Registries == {"a", "b"}

\* a provider, by what its List returns
Providers ==
    [out : SeqsUpTo(Registries, 1) \cup {<< "a", "b" >>},
     err : {Nil, "not found", "denied"}]

CombineInputs == SeqsUpTo(Providers, MaxProviders)

RECURSIVE ListFromIgnoringErrors(_, _, _)
ListFromIgnoringErrors(sources, out, i) ==
    IF i > Len(sources)
    THEN [out |-> out, err |-> Nil, consulted |-> Len(sources)]
    ELSE ListFromIgnoringErrors(sources, out \o sources[i].out, i + 1)

RECURSIVE ListFrom(_, _, _)
\* the loop of combined.List from source i on, with the registries collected
\* so far: what List returns, and how many sources it consulted
ListFrom(sources, out, i) ==
    IF i > Len(sources)
    THEN [out |-> out, err |-> Nil, consulted |-> Len(sources)]
    ELSE IF sources[i].err # Nil
    THEN [out |-> << >>, err |-> sources[i].err, consulted |-> i]
    ELSE ListFrom(sources, out \o sources[i].out, i + 1)

\* Combine(p1, ..., pN).List is called.
CombineList ==
    /\ fnName = "List"
    /\ fnPc = "ready"
    /\ fnOutput' = ListFrom(fnInput, << >>, 1)
    /\ fnPc' = "done"
    /\ UNCHANGED << fnName, fnInput >>
    /\ UNCHANGED otherThanCall

\* ============================================================ compiler passes

PassNames == {"clone", "build", "test", "deploy", "publish"}

\* an engine.Step: its name and depends_on
PassStep(name, deps) == [Name |-> name, DependsOn |-> deps]

\* Specs whose steps have distinct names and declare no dependency
SerialInputs ==
    { [i \in DOMAIN names |-> PassStep(names[i], << >>)] :
        names \in { q \in SeqsUpTo(PassNames, MaxPassSteps) :
                      \A i, j \in DOMAIN q : i # j => q[i] # q[j] } }

configureSerialOnFirst(steps) ==
    [i \in DOMAIN steps |->
        IF i > 1
        THEN [steps[i] EXCEPT !.DependsOn = << steps[1].Name >>]
        ELSE steps[i]]

\* configureSerial: every step but the first depends on the step before it
configureSerial(steps) ==
    [i \in DOMAIN steps |->
        IF i > 1
        THEN [steps[i] EXCEPT !.DependsOn = << steps[i - 1].Name >>]
        ELSE steps[i]]

\* configureSerial is called.
ConfigureSerial ==
    /\ fnName = "configureSerial"
    /\ fnPc = "ready"
    /\ fnOutput' = configureSerial(fnInput)
    /\ fnPc' = "done"
    /\ UNCHANGED << fnName, fnInput >>
    /\ UNCHANGED otherThanCall

\* the name of the clone step
CloneName == "clone"

\* the depends_on lists a step may declare
DependsOnLists ==
    { << >>, << "clone" >>, << "build", "test" >>, << "clone", "build" >> }

\* Specs whose steps have distinct names and any of these dependencies
PassInputs ==
    UNION { { [i \in DOMAIN names |-> PassStep(names[i], deps[i])] :
                deps \in [DOMAIN names -> DependsOnLists] } :
            names \in { q \in SeqsUpTo(PassNames, MaxPassSteps) :
                          \A i, j \in DOMAIN q : i # j => q[i] # q[j] } }

configureCloneDepsOnAll(steps) ==
    [i \in DOMAIN steps |->
        IF Len(steps[i].DependsOn) = 0
        THEN [steps[i] EXCEPT !.DependsOn = << CloneName >>]
        ELSE steps[i]]

\* configureCloneDeps: a step other than the clone step that declares no
\* dependency depends on the clone step
configureCloneDeps(steps) ==
    [i \in DOMAIN steps |->
        IF steps[i].Name = CloneName THEN steps[i]
        ELSE IF Len(steps[i].DependsOn) = 0
        THEN [steps[i] EXCEPT !.DependsOn = << CloneName >>]
        ELSE steps[i]]

\* configureCloneDeps is called.
ConfigureCloneDeps ==
    /\ fnName = "configureCloneDeps"
    /\ fnPc = "ready"
    /\ fnOutput' = configureCloneDeps(fnInput)
    /\ fnPc' = "done"
    /\ UNCHANGED << fnName, fnInput >>
    /\ UNCHANGED otherThanCall

RECURSIVE WithoutName(_, _)
\* a depends_on list without the entries equal to name
WithoutName(deps, name) ==
    IF deps = << >> THEN << >>
    ELSE IF Head(deps) = name THEN WithoutName(Tail(deps), name)
    ELSE << Head(deps) >> \o WithoutName(Tail(deps), name)

removeCloneDepsAlways(steps) ==
    [i \in DOMAIN steps |->
        [steps[i] EXCEPT !.DependsOn = WithoutName(@, CloneName)]]

\* removeCloneDeps: nothing when the Spec has a clone step; otherwise the
\* clone step is taken out of every depends_on
removeCloneDeps(steps) ==
    IF \E i \in DOMAIN steps : steps[i].Name = CloneName
    THEN steps
    ELSE [i \in DOMAIN steps |->
            [steps[i] EXCEPT !.DependsOn = WithoutName(@, CloneName)]]

\* removeCloneDeps is called.
RemoveCloneDeps ==
    /\ fnName = "removeCloneDeps"
    /\ fnPc = "ready"
    /\ fnOutput' = removeCloneDeps(fnInput)
    /\ fnPc' = "done"
    /\ UNCHANGED << fnName, fnInput >>
    /\ UNCHANGED otherThanCall

\* the values of when.status.include
StatusNames == {"success", "failure", "error", "killed"}

\* when.status.include of a step
IncludeInputs == SeqsUpTo(StatusNames, MaxInclude)

isRunAlwaysOnEither(include) ==
    \/ "success" \in Range(include)
    \/ "failure" \in Range(include)

\* isRunAlways: the include list names success and failure
isRunAlways(include) ==
    /\ "success" \in Range(include)
    /\ "failure" \in Range(include)

\* isRunOnFailure: the include list names failure
isRunOnFailure(include) == "failure" \in Range(include)

\* the run-policy the compiler gives the step
RunPolicyOf(include) ==
    IF isRunAlways(include) THEN "RunAlways"
    ELSE IF isRunOnFailure(include) THEN "RunOnFailure"
    ELSE "RunOnSuccess"

\* The compiler derives the run-policy of a step.
DeriveRunPolicy ==
    /\ fnName = "runPolicy"
    /\ fnPc = "ready"
    /\ fnOutput' = [always |-> isRunAlways(fnInput),
                    onFailure |-> isRunOnFailure(fnInput),
                    policy |-> RunPolicyOf(fnInput)]
    /\ fnPc' = "done"
    /\ UNCHANGED << fnName, fnInput >>
    /\ UNCHANGED otherThanCall

\* ------------------------------------------------------------ specification

\* a step whose ID names no container of the pod
OrphanStep == "test"

HasOtherName(container) == container.name # OrphanStep

\* The state after Setup created the pod and before any step is run.
EngineInit ==
    /\ podExists = TRUE
    /\ podContainers = CreatedContainers
    /\ podAnnotations = [wl |-> NoStep, ext |-> 0]
    /\ podStatus = [c \in StepIDs |-> NoStatus]
    /\ podUpdateMutex = NoStep
    /\ got = [s \in StepIDs |-> NoPod]
    /\ pc = [s \in StepIDs |-> "idle"]
    /\ attempts = [s \in StepIDs |-> 0]
    /\ tailLine = [s \in StepIDs |-> 0]
    /\ result = [s \in StepIDs |-> NoResult]
    /\ ctxDone = FALSE
    /\ retryLogs \in BOOLEAN

\* No Run is in progress.
EngineIdle ==
    /\ retryLogs = FALSE
    /\ EngineInit

\* No Setup or Destroy was called: the store holds no object of the stage.
LifecycleInit ==
    /\ specNamespace \in BOOLEAN
    /\ specPullSecret \in BOOLEAN
    /\ store = {}
    /\ lcPc = "idle"
    /\ lcCalls = << >>
    /\ lcResult = << >>
    /\ setups = 0
    /\ created = {}
    /\ createdBefore = {}

LifecycleIdle ==
    /\ specNamespace = FALSE
    /\ specPullSecret = FALSE
    /\ LifecycleInit

\* The runner has received a stage and not yet called Run or RunAccepted.
RunnerInit ==
    /\ rPc = "idle"
    /\ rEntry = "none"
    /\ rCalls = << >>
    /\ rResult = [returned |-> FALSE, err |-> Nil]
    /\ stageMachine = ""
    /\ stageSteps \in ReceivedSteps
    /\ stageStatus = "pending"
    /\ stageError = ""
    /\ entered = FALSE
    /\ ctxErr = [c \in Range(Contexts) |-> Nil]
    /\ wPc = "none"
    /\ watchResult = "none"
    /\ buildCancelled = FALSE
    /\ compiledSpec = << >>

RunnerIdle ==
    /\ stageSteps = << >>
    /\ RunnerInit

\* The scheduler receives a plan: all steps pending. Never steps are not
\* part of the plan.
SchedInit ==
    /\ sDeps \in PlanGraphs
    /\ sRunPolicy \in [PlanNames -> {"RunAlways", "RunOnSuccess", "RunOnFailure"}]
    /\ sErrPolicy \in [PlanNames -> ErrPolicies]
    /\ sStatus = [s \in PlanNames |-> "pending"]
    /\ sCancelled = FALSE

SchedIdle ==
    /\ sDeps = [s \in PlanNames |-> {}]
    /\ sRunPolicy = [s \in PlanNames |-> "RunOnSuccess"]
    /\ sErrPolicy = [s \in PlanNames |-> "ErrFail"]
    /\ SchedInit

\* No function is being called.
CallIdle ==
    /\ fnName = "none"
    /\ fnInput = << >>
    /\ fnOutput = << >>
    /\ fnPc = "done"

Init ==
    /\ EngineInit
    /\ LifecycleIdle
    /\ RunnerIdle
    /\ SchedIdle
    /\ CallIdle

Next ==
    \/ \E s \in StepIDs : RunBegin(s)
    \/ \E s \in StepIDs : StartGet(s)
    \/ \E s \in StepIDs : StartUpdate(s)
    \/ \E s \in StepIDs : WaitForReady(s)
    \/ \E s \in StepIDs : TailOpen(s)
    \/ \E s \in StepIDs : TailCopy(s)
    \/ \E s \in StepIDs : WaitForTerminated(s)
    \/ \E c \in StepIDs : Kubelet(c)
    \/ ExternalWrite
    \/ DeletePod
    \/ Cancel

Spec == Init /\ [][Next]_vars

\* The steps of Run that the program takes by itself are taken: a call that
\* can return does return. Nothing makes the orchestrator act: the kubelet
\* need not report, and a log stream that is open need not end (TailCopy).
RunFairness ==
    \A s \in StepIDs :
        /\ WF_vars(StartGet(s))
        /\ WF_vars(StartUpdate(s))
        /\ WF_vars(WaitForReady(s))
        /\ WF_vars(TailOpen(s))
        /\ WF_vars(WaitForTerminated(s))

FairSpec == Init /\ [][Next]_vars /\ RunFairness

\* Starts of the steps of one Spec, with other clients writing the pod at
\* any time and any number of times.
StartNext ==
    \/ \E s \in StepIDs : RunBegin(s)
    \/ \E s \in StepIDs : StartGet(s)
    \/ \E s \in StepIDs : StartUpdate(s)
    \/ ForeignUpdate
    \/ DeletePod

\* A start that can take its next step does so: the mutex is handed over and
\* the requests to the orchestrator are answered.
StartFairness ==
    \A s \in StepIDs :
        /\ WF_vars(StartGet(s))
        /\ WF_vars(StartUpdate(s))

StartSpec == Init /\ [][StartNext]_vars /\ StartFairness

\* The pod has no container for the step "test".
OrphanInit ==
    /\ podContainers = SelectSeq(CreatedContainers, HasOtherName)
    /\ podStatus = [c \in StepIDs \ {OrphanStep} |-> NoStatus]
    /\ podExists = TRUE
    /\ podAnnotations = [wl |-> NoStep, ext |-> 0]
    /\ podUpdateMutex = NoStep
    /\ got = [s \in StepIDs |-> NoPod]
    /\ pc = [s \in StepIDs |-> "idle"]
    /\ attempts = [s \in StepIDs |-> 0]
    /\ tailLine = [s \in StepIDs |-> 0]
    /\ result = [s \in StepIDs |-> NoResult]
    /\ ctxDone = FALSE
    /\ retryLogs \in BOOLEAN
    /\ LifecycleIdle
    /\ RunnerIdle
    /\ SchedIdle
    /\ CallIdle

OrphanSpec == OrphanInit /\ [][Next]_vars

SetupInit ==
    /\ LifecycleInit
    /\ EngineIdle
    /\ RunnerIdle
    /\ SchedIdle
    /\ CallIdle

SetupNext ==
    \/ SetupBegin
    \/ SetupNamespace
    \/ SetupPullSecret
    \/ SetupSecret
    \/ SetupPod
    \/ DestroyBegin
    \/ DestroyPullSecret
    \/ DestroySecret
    \/ DestroyPod
    \/ DestroyNamespace

SetupSpec == SetupInit /\ [][SetupNext]_vars

RunnerSpecInit ==
    /\ RunnerInit
    /\ EngineIdle
    /\ LifecycleIdle
    /\ SchedIdle
    /\ CallIdle

RunnerNext ==
    \/ RunnerRun
    \/ RunnerAccept
    \/ RunnerRunAccepted
    \/ RunnerDetail
    \/ RunnerEnter
    \/ RunnerMatch
    \/ RunnerEval
    \/ RunnerParse
    \/ RunnerLookup
    \/ RunnerLint
    \/ RunnerCompile
    \/ RunnerUpdate
    \/ RunnerExec
    \/ RunnerExecReturn
    \/ WatcherCall
    \/ WatcherReturn
    \/ RemoteCancel
    \/ CallerCancel
    \/ TimeoutExpire

RunnerSpec == RunnerSpecInit /\ [][RunnerNext]_vars

SchedSpecInit ==
    /\ SchedInit
    /\ EngineIdle
    /\ LifecycleIdle
    /\ RunnerIdle
    /\ CallIdle

SchedNext ==
    \/ \E s \in PlanNames : Dispatch(s)
    \/ \E s \in PlanNames : SkipStep(s)
    \/ \E s \in PlanNames : StepDone(s)
    \/ SchedCancel

SchedSpec == SchedSpecInit /\ [][SchedNext]_vars

\* Everything but the function called is idle.
OthersIdle ==
    /\ EngineIdle
    /\ LifecycleIdle
    /\ RunnerIdle
    /\ SchedIdle

\* A function is about to be called with one of the given inputs.
CallInit(name, inputs) ==
    /\ fnName = name
    /\ fnInput \in inputs
    /\ fnOutput = << >>
    /\ fnPc = "ready"
    /\ OthersIdle

FindInit == CallInit("Find", FindInputs)

FindNext == StaticFind

FindSpec == FindInit /\ [][FindNext]_vars

CombineInit == CallInit("List", CombineInputs)

CombineNext == CombineList

CombineSpec == CombineInit /\ [][CombineNext]_vars

SerialInit == CallInit("configureSerial", SerialInputs)

SerialNext == ConfigureSerial

SerialSpec == SerialInit /\ [][SerialNext]_vars

CloneDepsInit == CallInit("configureCloneDeps", PassInputs)

CloneDepsNext == ConfigureCloneDeps

CloneDepsSpec == CloneDepsInit /\ [][CloneDepsNext]_vars

RemoveCloneInit == CallInit("removeCloneDeps", PassInputs)

RemoveCloneNext == RemoveCloneDeps

RemoveCloneSpec == RemoveCloneInit /\ [][RemoveCloneNext]_vars

RunPolicyInit == CallInit("runPolicy", IncludeInputs)

RunPolicyNext == DeriveRunPolicy

RunPolicySpec == RunPolicyInit /\ [][RunPolicyNext]_vars

\* ------------------------------------------------------- claims: the engine

StartErrors == {"start: not found", "start: conflict"}
WaitErrors == {"wait: timeout", "wait: pod missing"}
TailErrors == {"tail: error"}

\* the steps Run makes from one position to the next
RunTransitions ==
    { <<"idle", "start">>, <<"start", "update">>, <<"update", "start">>,
      <<"update", "ready">>, <<"ready", "tail">>, <<"tail", "tailing">>,
      <<"tailing", "tail">>, <<"tailing", "terminated">>,
      <<"start", "returned">>, <<"update", "returned">>, <<"ready", "returned">>,
      <<"tail", "returned">>, <<"tailing", "returned">>, <<"terminated", "returned">> }

\* the errors the phase at a position can return
PhaseErrors(at) ==
    IF at \in {"start", "update"} THEN StartErrors
    ELSE IF at \in {"ready", "terminated"} THEN WaitErrors
    ELSE IF at \in {"tail", "tailing"} THEN TailErrors
    ELSE {}

\* C1: Run executes Start, WaitForReady, Tail, WaitForTerminated in this
\* order: the first tail call is made only when waitForReady saw the step's
\* container with a non-placeholder image (normalized) running or terminated;
\* waitForTerminated begins only when a tail call returned nil; a phase that
\* returns an error ends Run with that error, and Run, once returned, does
\* nothing more.
C1_PhaseOrder ==
    [][\A s \in StepIDs :
        /\ pc'[s] # pc[s] => <<pc[s], pc'[s]>> \in RunTransitions
        /\ (pc[s] = "ready" /\ pc'[s] = "tail") =>
              /\ podExists
              /\ s \in DOMAIN podStatus
              /\ podStatus[s].state \in {"running", "terminated"}
              /\ Normalize(podStatus[s].image) # Normalize(Placeholder)
              /\ tailLine'[s] = 180
        /\ (pc[s] # "terminated" /\ pc'[s] = "terminated") =>
              /\ pc[s] = "tailing"
              /\ ~result'[s].returned
        /\ (pc[s] # "returned" /\ pc'[s] = "returned" /\ result'[s].err # Nil) =>
              /\ result'[s].err \in PhaseErrors(pc[s])
              /\ result'[s].state = NoState
        /\ pc[s] = "returned" => (pc'[s] = "returned" /\ result'[s] = result[s])
        /\ result'[s].returned <=> pc'[s] = "returned"
    ]_vars

\* C1 witness: one step is in waitForTerminated after its phases ran in
\* order while Run of the other step has returned a tail error.
C1_Witness ==
    \E s, t \in StepIDs :
        /\ pc[s] = "terminated"
        /\ pc[t] = "returned"
        /\ result[t].err = "tail: error"

\* C2: when the first call of start's closure ended in a conflict and the
\* Update of the second call is accepted, start returns nil (Run goes on to
\* waitForReady), the Update swaps the image of the step's container, which
\* was still the placeholder, to the step's image, leaves the other
\* containers alone and keeps the concurrent change (the external
\* annotation); the image of a step's container changes in no other step of
\* the system, so one Update of this start is applied.
C2_StartRetry ==
    [][\A s \in StepIDs :
        /\ (pc[s] = "update" /\ attempts[s] = 2 /\ podExists /\ got[s].fresh /\ pc'[s] # pc[s]) =>
              /\ pc'[s] = "ready"
              /\ ~result'[s].returned
              /\ ImageOf(podContainers, s) = Placeholder
              /\ ImageOf(podContainers', s) = StepImage(s)
              /\ \A c \in StepIDs \ {s} : ImageOf(podContainers', c) = ImageOf(podContainers, c)
              /\ podAnnotations'.ext = podAnnotations.ext
        /\ ImageOf(podContainers', s) # ImageOf(podContainers, s) =>
              (pc[s] = "update" /\ pc'[s] = "ready")
        /\ pc[s] \in {"ready", "tail", "tailing", "terminated", "returned"} =>
              pc'[s] \notin {"start", "update"}
    ]_vars

\* C2 witness: the first Update of a start was refused because an external
\* client changed the pod after the Get; the second call has read the pod
\* again, with that change in it, and now calls Update.
C2_Witness ==
    \E s \in StepIDs :
        /\ pc[s] = "update"
        /\ attempts[s] = 2
        /\ podExists
        /\ got[s].fresh
        /\ podAnnotations.ext = 1
        /\ got[s].annotations.ext = 1
        /\ \A c \in StepIDs : podStatus[c].state = "none"

\* C3: placeholder invariant. The pod keeps the containers Setup created,
\* by name and order; every container holds the placeholder or its own
\* step's image; the container of a step whose start was not invoked, or has
\* not had an Update accepted, holds the placeholder.
C3_Placeholder ==
    /\ Names(podContainers) = Names(CreatedContainers)
    /\ \A i \in DOMAIN podContainers :
          LET c == podContainers[i] IN
          /\ c.image \in {Placeholder, StepImage(c.name)}
          /\ c.name \in StepIDs
          /\ pc[c.name] \in {"idle", "start", "update"} => c.image = Placeholder

\* C3 witness: one step was started (its container holds the step's image)
\* while start was never invoked for the other one.
C3_Witness ==
    \E s, t \in StepIDs :
        /\ pc[s] = "idle"
        /\ pc[t] = "tailing"
        /\ ImageOf(podContainers, t) = StepImage(t)
        /\ ImageOf(podContainers, s) = Placeholder

\* C4: Run returns a State or an error, never both and never neither. It
\* returns a State only from waitForTerminated, when the step's container
\* status is terminated with a non-placeholder image (normalized); then
\* Exited is true and ExitCode is the exit code of that status. A status
\* with the placeholder image, terminated or not, lets neither wait return.
C4_RunResult ==
    [][\A s \in StepIDs :
        /\ result'[s].returned => (result'[s].err = Nil) # (result'[s].state = NoState)
        /\ ~result'[s].returned => (result'[s].err = Nil /\ result'[s].state = NoState)
        /\ (~result[s].returned /\ result'[s].returned /\ result'[s].err = Nil) =>
              /\ pc[s] = "terminated"
              /\ podExists
              /\ podStatus[s].state = "terminated"
              /\ Normalize(podStatus[s].image) # Normalize(Placeholder)
              /\ result'[s].state.Exited
              /\ result'[s].state.ExitCode = podStatus[s].exitCode
        /\ (podStatus[s].state = "none" \/ Normalize(podStatus[s].image) = Normalize(Placeholder)) =>
              ~(pc[s] \in {"ready", "terminated"} /\ pc'[s] # pc[s] /\ result'[s].err = Nil)
    ]_vars

\* C4 witness: Run returned a State with a non-zero exit code for one step.
C4_Witness ==
    \E s \in StepIDs :
        /\ result[s].returned
        /\ result[s].err = Nil
        /\ result[s].state.Exited
        /\ result[s].state.ExitCode = 1
        /\ podStatus[s].exitCode = 1

InFlight(s) == pc[s] \notin {"idle", "returned"}

\* C11: once the context passed to Run is cancelled, every Run in progress
\* returns, in whatever phase it is, also when the orchestrator does nothing
\* more: the step's container does not terminate and the log stream is not
\* closed.
C11_CancelUnblocks == ctxDone ~> (\A s \in StepIDs : ~InFlight(s))

\* C13: while the pod does not exist (it was deleted, or never existed), a
\* Run that is in waitForReady or in waitForTerminated is not blocked: its
\* wait can return; and whenever it moves, Run returns an error of waitFor
\* and no State.
C13_PodMissing ==
    [][\A s \in StepIDs :
        (pc[s] \in {"ready", "terminated"} /\ ~podExists) =>
            /\ ENABLED (WaitForReady(s) \/ WaitForTerminated(s))
            /\ pc'[s] # pc[s] =>
                  /\ pc'[s] = "returned"
                  /\ result'[s].returned
                  /\ result'[s].err \in WaitErrors
                  /\ result'[s].state = NoState
    ]_vars

\* C13 witness: the pod was deleted while one Run waited for its container
\* to terminate and another does so still; the context is not cancelled and
\* the first Run has returned the error.
C13_Witness ==
    \E s, t \in StepIDs :
        /\ ~podExists
        /\ ~ctxDone
        /\ pc[t] = "terminated"
        /\ podStatus[s].state = "running"
        /\ result[s] = [state |-> NoState, err |-> "wait: pod missing", returned |-> TRUE]

InTail(s) == pc[s] \in {"tail", "tailing"}
InTailNext(s) == pc'[s] \in {"tail", "tailing"}

\* C14: the retry of tail is opt-in. Without the feature flag the only tail
\* call is the first one (line 180): when it fails Run returns its error.
\* With the flag at most three tail calls are made, each after the one
\* before failed. Run goes on to waitForTerminated exactly when the last
\* call made returned nil, and returns the tail error otherwise.
C14_TailRetryOptIn ==
    [][\A s \in StepIDs :
        /\ (~retryLogs /\ InTail(s)) =>
              /\ tailLine[s] = 180
              /\ pc'[s] \in {"tail", "tailing", "terminated", "returned"}
              /\ InTailNext(s) => tailLine'[s] = 180
        /\ (retryLogs /\ InTail(s)) =>
              /\ tailLine[s] \in {180, 191, 195}
              /\ InTailNext(s) => tailLine'[s] \in {180, 191, 195}
              /\ InTailNext(s) => tailLine'[s] >= tailLine[s]
        /\ (InTail(s) /\ pc'[s] = "returned") => result'[s].err \in TailErrors
        /\ (InTail(s) /\ pc'[s] = "terminated") => (pc[s] = "tailing" /\ ~result'[s].returned)
    ]_vars

\* C15: the State that Run returns for a step has OOMKilled set exactly when
\* the terminated status waitForTerminated accepted says that the container
\* was OOM-killed.
C15_OomKilled ==
    [][\A s \in StepIDs :
        (~result[s].returned /\ result'[s].returned /\ result'[s].err = Nil) =>
            result'[s].state.OOMKilled = podStatus[s].oomKilled
    ]_vars

\* C12: DAG safety. Engine.Run is invoked for a step (the step becomes
\* running) only when every step it depends on is in a terminal state, and a
\* terminal state is final, so every dependency ended before the step
\* started; steps without a dependency relation start in any order.
C12_DagSafety ==
    [][\A s \in PlanNames :
        /\ (sStatus[s] # "running" /\ sStatus'[s] = "running") =>
              /\ sStatus[s] = "pending"
              /\ \A d \in sDeps[s] : sStatus[d] \in Terminal
        /\ sStatus[s] \in Terminal => sStatus'[s] = sStatus[s]
    ]_vars

\* C12 witness: a step runs after both of its dependencies ended, one of
\* them failed, and they are independent of each other.
C12_Witness ==
    /\ sDeps["test"] = {"clone", "build"}
    /\ sDeps["build"] = {}
    /\ sStatus["test"] = "running"
    /\ sStatus["clone"] = "failure"
    /\ sStatus["build"] = "success"

\* -------------------------------------------- claims: Setup and Destroy

\* what Setup is to create for the Spec, in order
ExpectedCreates ==
    (IF specNamespace THEN << [kind |-> "Namespace", name |-> "drone-ns"] >> ELSE << >>)
    \o (IF specPullSecret THEN << [kind |-> "Secret", name |-> "pull"] >> ELSE << >>)
    \o << [kind |-> "Secret", name |-> "drone-pod"], [kind |-> "Pod", name |-> "drone-pod"] >>

InSetup ==
    lcPc \in {"Setup.namespace", "Setup.pullsecret", "Setup.secret", "Setup.pod", "Setup.returned"}

\* the errors of the calls that failed, in call order
FailuresOf(calls) ==
    LET failed == SelectSeq(calls, LAMBDA c : c.err # Nil) IN
    [i \in DOMAIN failed |-> failed[i].err]

\* C5: when Destroy returns it has called Delete, once each, for the pull
\* secret (if declared), the generic secret, the pod and the namespace (if
\* owned), whatever the earlier Deletes returned, and so for every object
\* Setup created; it returns nil iff every Delete succeeded, and otherwise
\* the errors of all the failed Deletes.
C5_DestroyComplete ==
    lcPc = "Destroy.returned" =>
        /\ Len(lcCalls) = Len(ExpectedCreates)
        /\ {c.obj : c \in Range(lcCalls)} = Range(ExpectedCreates)
        /\ \A c \in Range(lcCalls) : c.verb = "delete"
        /\ created \subseteq {c.obj : c \in Range(lcCalls)}
        /\ (lcResult = << >>) <=> (\A c \in Range(lcCalls) : c.err = Nil)
        /\ lcResult = FailuresOf(lcCalls)

\* C5 witness: Destroy returned for a Spec with a pull secret and an owned
\* namespace; two Deletes failed and a later Delete succeeded.
C5_Witness ==
    /\ lcPc = "Destroy.returned"
    /\ specNamespace /\ specPullSecret
    /\ Len(lcCalls) = 4
    /\ lcCalls[1].err # Nil
    /\ lcCalls[2].err # Nil
    /\ lcCalls[3].err = Nil
    /\ Len(lcResult) >= 2
    /\ created # {}

\* C6: Setup calls Create for the namespace (if owned), the pull secret (if
\* declared), the generic secret and the pod, in this order; a failed Create
\* is the last call, Setup returns its error, and a successful Setup made
\* all the calls; what a Create of this call created is in the store.
C6_SetupFirstError ==
    InSetup =>
        /\ Len(lcCalls) <= Len(ExpectedCreates)
        /\ \A i \in DOMAIN lcCalls :
              /\ lcCalls[i].verb = "create"
              /\ lcCalls[i].obj = ExpectedCreates[i]
              /\ lcCalls[i].err = Nil => lcCalls[i].obj \in store
              /\ lcCalls[i].err # Nil =>
                    /\ i = Len(lcCalls)
                    /\ lcPc = "Setup.returned"
                    /\ lcResult = << lcCalls[i].err >>
        /\ (lcPc = "Setup.returned" /\ lcResult = << >>) =>
              /\ Len(lcCalls) = Len(ExpectedCreates)
              /\ Range(ExpectedCreates) \subseteq store
        /\ lcPc # "Setup.returned" => lcResult = << >>

\* C6 witness: Setup returned the error of the generic secret's Create; the
\* namespace and the pull secret it created are in the store and no Create
\* of the pod was attempted.
C6_Witness ==
    /\ lcPc = "Setup.returned"
    /\ Len(lcCalls) = 3
    /\ lcCalls[3].err = "server error"
    /\ lcResult = << "server error" >>
    /\ Cardinality(store) = 2
    /\ [kind |-> "Pod", name |-> "drone-pod"] \notin store

\* C7: a second Setup with the same Spec, after a Setup that created
\* something, returns nil and leaves the objects one Setup creates.
C7_SetupIdempotent ==
    (lcPc = "Setup.returned" /\ setups = 2 /\ createdBefore # {}) =>
        /\ lcResult = << >>
        /\ store = Range(ExpectedCreates)

\* ------------------------------------------------------------ runner claims

CallsOf(ops) == {i \in DOMAIN rCalls : rCalls[i].op \in ops}

\* C8: Runner.Run assigns the machine tag to the stage and then calls
\* Client.Accept before anything else. When Accept fails with
\* ErrOptimisticLock Run returns nil having made no other call; when it fails
\* with any other error Run returns that error having made no other call.
C8_AcceptFirst ==
    (rEntry = "Run" /\ rCalls # << >>) =>
        /\ rCalls[1].op = "Accept"
        /\ rCalls[1].arg = Machine
        /\ rCalls[1].ret = ErrOptimisticLock =>
              /\ rCalls = << rCalls[1] >>
              /\ rResult = [returned |-> TRUE, err |-> Nil]
        /\ rCalls[1].ret \notin {Nil, ErrOptimisticLock} =>
              /\ rCalls = << rCalls[1] >>
              /\ rResult = [returned |-> TRUE, err |-> rCalls[1].ret]

C8_Witness ==
    /\ rEntry = "Run"
    /\ rCalls = << Call("Accept", Machine, ErrOptimisticLock) >>
    /\ rResult = [returned |-> TRUE, err |-> Nil]
    /\ buildCancelled

ConfigOps == {"Eval", "Parse", "Lookup", "Lint"}

\* C9: when environment substitution, parsing, the lookup of the named
\* pipeline or linting fails, every step of the stage is failed with that
\* error, the stage is reported through Reporter.ReportStage exactly once and
\* run returns what ReportStage returned, without having called the compiler,
\* Client.Update or Exec.
C9_ConfigFailure ==
    \A i \in CallsOf(ConfigOps) :
        rCalls[i].ret # Nil =>
            /\ \A k \in DOMAIN stageSteps :
                  /\ stageSteps[k].Status = "error"
                  /\ stageSteps[k].Error = rCalls[i].ret
            /\ stageStatus = "error"
            /\ Cardinality(CallsOf({"ReportStage"})) = 1
            /\ \A j \in CallsOf({"ReportStage"}) :
                  /\ j > i
                  /\ rResult = [returned |-> TRUE, err |-> rCalls[j].ret]
            /\ CallsOf({"Compile", "Update", "Exec"}) = {}

C9_Witness ==
    /\ \E i \in CallsOf({"Lint"}) : rCalls[i].ret # Nil
    /\ CallsOf({"Eval", "Parse", "Lookup"}) # {}
    /\ stageSteps # << >>
    /\ \A k \in DOMAIN stageSteps : stageSteps[k].Status = "error"
    /\ rPc = "returned"

\* Exec is running with the context run handed to it.
ExecRunning == rPc = "execing"

TimeoutExpired == ctxErr["ctxtimeout"] = "deadline exceeded"

C16_ReportNeverFails ==
    \A i \in CallsOf({"ReportStage"}) :
        (rCalls[i].ret # Nil /\ rResult.returned) => rResult.err = Nil

\* the stage came without steps
ReceivedEmpty == \A k \in DOMAIN stageSteps : stageSteps[k].Name # "restored"

NotNever(step) == step.runPolicy # "RunNever"

\* C17: for a stage that came without steps, once the Spec is compiled
\* stage.Steps holds, in Spec order, one pending entry for every step of the
\* Spec whose run-policy is not Never and nothing else; the entries are
\* numbered 1..n without gaps and ErrIgnore is set exactly for the steps
\* whose err-policy is Ignore.
C17_StepsPopulated ==
    (CallsOf({"Compile"}) # {} /\ ReceivedEmpty) =>
        LET kept == SelectSeq(compiledSpec, NotNever) IN
        /\ Len(stageSteps) = Len(kept)
        /\ \A k \in DOMAIN stageSteps :
              /\ stageSteps[k].Name = kept[k].name
              /\ stageSteps[k].Number = k
              /\ stageSteps[k].Status = "pending"
              /\ stageSteps[k].ErrIgnore <=> (kept[k].errPolicy = "ErrIgnore")

\* C17 witness: the Spec starts with a Never step, followed by a step whose
\* errors are ignored: that step is entry number 1 of the stage.
C17_Witness ==
    /\ ReceivedEmpty
    /\ Len(compiledSpec) = 2
    /\ compiledSpec[1].runPolicy = "RunNever"
    /\ compiledSpec[2].runPolicy = "RunOnFailure"
    /\ compiledSpec[2].errPolicy = "ErrIgnore"
    /\ Len(stageSteps) = 1
    /\ stageSteps[1].Number = 1
    /\ stageSteps[1].ErrIgnore
    /\ rPc = "exec"

\* ------------------------------------------------- claims: pure functions

Returned(name) == fnName = name /\ fnPc = "done"

\* the entries of the list that Find may return for the request
Qualifying ==
    { i \in DOMAIN fnInput.secrets :
        /\ EqualFold(fnInput.secrets[i].Name, fnInput.Name)
        /\ fnInput.Event = EventPullRequest => fnInput.secrets[i].PullRequest }

Consulted ==
    { i \in DOMAIN fnInput : \A j \in 1..i : fnInput[j].err = Nil }

RECURSIVE LenBefore(_)
\* the number of registries of the sources before source i
LenBefore(i) == IF i <= 1 THEN 0 ELSE LenBefore(i - 1) + Len(fnInput[i - 1].out)

\* C19: when no source fails, List returns without error the registries of
\* all sources, those of a source in their order and after those of the
\* sources before it, having consulted every source; when a source fails,
\* List returns the error of the first one that does and consults no source
\* after it.
C19_CombineList ==
    Returned("List") =>
        IF \A i \in DOMAIN fnInput : fnInput[i].err = Nil
        THEN /\ fnOutput.err = Nil
             /\ fnOutput.consulted = Len(fnInput)
             /\ Len(fnOutput.out) = LenBefore(Len(fnInput) + 1)
             /\ \A i \in DOMAIN fnInput : \A k \in DOMAIN fnInput[i].out :
                    fnOutput.out[LenBefore(i) + k] = fnInput[i].out[k]
        ELSE /\ fnOutput.consulted = Cardinality(Consulted) + 1
             /\ fnOutput.err = fnInput[fnOutput.consulted].err
             /\ fnOutput.err # Nil

\* C19 witness: two sources, neither fails, the first has two registries.
C19_Witness ==
    /\ Returned("List")
    /\ fnInput = << [out |-> << "a", "b" >>, err |-> Nil], [out |-> << "a" >>, err |-> Nil] >>
    /\ fnOutput.out = << "a", "b", "a" >>

\* C20: configureSerial keeps the steps, their order and their names; the
\* first step has no dependency and every other step depends on exactly the
\* step before it. The graph is one chain: every dependency names a step
\* that comes earlier (so the graph has no cycle) and every step but the
\* last is the dependency of exactly one step.
C20_ConfigureSerial ==
    Returned("configureSerial") =>
        /\ Len(fnOutput) = Len(fnInput)
        /\ \A i \in DOMAIN fnOutput :
              /\ fnOutput[i].Name = fnInput[i].Name
              /\ i = 1 => fnOutput[i].DependsOn = << >>
              /\ i > 1 => fnOutput[i].DependsOn = << fnInput[i - 1].Name >>
              /\ \A d \in Range(fnOutput[i].DependsOn) :
                    \E j \in 1..(i - 1) : fnOutput[j].Name = d
              /\ i < Len(fnOutput) =>
                    Cardinality({ j \in DOMAIN fnOutput :
                                    fnOutput[i].Name \in Range(fnOutput[j].DependsOn) }) = 1

\* C20 witness: the steps build, test, deploy.
C20_Witness ==
    /\ Returned("configureSerial")
    /\ fnInput = << PassStep("build", << >>), PassStep("test", << >>), PassStep("deploy", << >>) >>
    /\ fnOutput = << PassStep("build", << >>), PassStep("test", << "build" >>),
                     PassStep("deploy", << "test" >>) >>

IsNotClone(name) == name # CloneName

\* C21: configureCloneDeps keeps the steps, their order and names; a step
\* other than the clone step that declared no dependency depends on the
\* clone step alone; a step that declared dependencies keeps them; the clone
\* step is unchanged, so it does not come to depend on itself.
C21_ConfigureCloneDeps ==
    Returned("configureCloneDeps") =>
        /\ Len(fnOutput) = Len(fnInput)
        /\ \A i \in DOMAIN fnInput :
              /\ fnOutput[i].Name = fnInput[i].Name
              /\ (fnInput[i].Name # CloneName /\ fnInput[i].DependsOn = << >>) =>
                    fnOutput[i].DependsOn = << CloneName >>
              /\ fnInput[i].DependsOn # << >> => fnOutput[i].DependsOn = fnInput[i].DependsOn
              /\ fnInput[i].Name = CloneName => fnOutput[i] = fnInput[i]

\* C21 witness: the Spec clone, build, deploy(build, test): clone stays
\* without dependencies, build depends on clone, deploy is unchanged.
C21_Witness ==
    /\ Returned("configureCloneDeps")
    /\ fnInput = << PassStep("clone", << >>), PassStep("build", << >>),
                    PassStep("deploy", << "build", "test" >>) >>
    /\ fnOutput = << PassStep("clone", << >>), PassStep("build", << "clone" >>),
                     PassStep("deploy", << "build", "test" >>) >>

HasClone == \E i \in DOMAIN fnInput : fnInput[i].Name = CloneName

\* C22: removeCloneDeps leaves a Spec that has a clone step unchanged. In a
\* Spec without a clone step it keeps the steps, their order and names and
\* takes the clone step out of every depends_on, keeping the other entries
\* in their order: afterwards no step depends on clone.
C22_RemoveCloneDeps ==
    Returned("removeCloneDeps") =>
        IF HasClone
        THEN fnOutput = fnInput
        ELSE /\ Len(fnOutput) = Len(fnInput)
             /\ \A i \in DOMAIN fnInput :
                   /\ fnOutput[i].Name = fnInput[i].Name
                   /\ fnOutput[i].DependsOn = SelectSeq(fnInput[i].DependsOn, IsNotClone)
                   /\ CloneName \notin Range(fnOutput[i].DependsOn)

\* C22 witness: no clone step; one step depended on clone alone, one on
\* clone and build, one on build and test.
C22_Witness ==
    /\ Returned("removeCloneDeps")
    /\ fnInput = << PassStep("build", << "clone" >>), PassStep("test", << "clone", "build" >>),
                    PassStep("deploy", << "build", "test" >>) >>
    /\ fnOutput = << PassStep("build", << >>), PassStep("test", << "build" >>),
                     PassStep("deploy", << "build", "test" >>) >>

\* C23: isRunAlways holds exactly when the include list names both success
\* and failure; isRunOnFailure holds exactly when it names failure; the
\* run-policy is Always when it names both, OnFailure when it names failure
\* and not success, OnSuccess otherwise (only success, nothing, or neither).
C23_RunPolicy ==
    Returned("runPolicy") =>
        LET success == \E i \in DOMAIN fnInput : fnInput[i] = "success"
            failure == \E i \in DOMAIN fnInput : fnInput[i] = "failure" IN
        /\ fnOutput.always <=> (success /\ failure)
        /\ fnOutput.onFailure <=> failure
        /\ (success /\ failure) => fnOutput.policy = "RunAlways"
        /\ (failure /\ ~success) => fnOutput.policy = "RunOnFailure"
        /\ ~failure => fnOutput.policy = "RunOnSuccess"

\* C23 witness: include = [failure]: not always, on failure.
C23_Witness ==
    /\ Returned("runPolicy")
    /\ fnInput = << "failure" >>
    /\ fnOutput = [always |-> FALSE, onFailure |-> TRUE, policy |-> "RunOnFailure"]

\* --------------------------------------------------- claims: start, again

InStart(s) == pc[s] \in {"start", "update"}

\* C24: start terminates. The closure is called at most backoff.Steps = 15
\* times; it is called again only after a call ended in a conflict; when the
\* pod is not found start returns that error at once; when the fifteenth
\* call ends in a conflict start returns the conflict; and every start that
\* began returns.
C24_StartTerminates ==
    /\ [][\A s \in StepIDs :
            /\ attempts'[s] <= BackoffSteps
            /\ (pc[s] = "update" /\ pc'[s] = "start") =>
                  /\ podExists
                  /\ ~got[s].fresh
                  /\ attempts[s] < BackoffSteps
            /\ (InStart(s) /\ ~podExists /\ pc'[s] # pc[s]) =>
                  /\ pc'[s] = "returned"
                  /\ result'[s].err = "start: not found"
            /\ (pc[s] = "update" /\ attempts[s] = BackoffSteps /\ podExists
                    /\ ~got[s].fresh /\ pc'[s] # pc[s]) =>
                  /\ pc'[s] = "returned"
                  /\ result'[s].err = "start: conflict"
       ]_vars
    /\ \A s \in StepIDs : InStart(s) ~> ~InStart(s)

\* C24 witness: a start has returned the conflict of its fifteenth call
\* while the other start is in its own fifteenth call.
C24_Witness ==
    \E s, t \in StepIDs :
        /\ result[s] = [state |-> NoState, err |-> "start: conflict", returned |-> TRUE]
        /\ pc[t] = "update"
        /\ attempts[t] = BackoffSteps
        /\ podExists

\* C25: at most one start is between its Get and the return of its Update,
\* and it is the holder of the mutex; the mutex is free whenever no start is
\* there, whatever the outcome of the call that held it; and a start that
\* waits for the mutex is never stuck: it, or the start holding the mutex,
\* can take a step.
C25_Mutex ==
    /\ Cardinality({s \in StepIDs : pc[s] = "update"}) <= 1
    /\ \A s \in StepIDs : pc[s] = "update" <=> podUpdateMutex = s
    /\ (\A s \in StepIDs : pc[s] # "update") => podUpdateMutex = NoStep
    /\ \A s \in StepIDs :
          pc[s] = "start" => ENABLED (\E u \in StepIDs : StartGet(u) \/ StartUpdate(u))

\* C25 witness: a start waits for the mutex in its second call, after a
\* conflict, while the other start holds the mutex.
C25_Witness ==
    \E s, t \in StepIDs :
        /\ pc[s] = "start"
        /\ attempts[s] = 1
        /\ pc[t] = "update"
        /\ podUpdateMutex = t

\* start has returned nil for the step
Started(s) ==
    \/ pc[s] \in {"ready", "tail", "tailing", "terminated"}
    \/ pc[s] = "returned" /\ result[s].err \notin StartErrors

StartedNext(s) ==
    \/ pc'[s] \in {"ready", "tail", "tailing", "terminated"}
    \/ pc'[s] = "returned" /\ result'[s].err \notin StartErrors

\* C26: no lost update. Once start returned nil for a step, the container
\* of the step holds the step's image in the pod, and keeps it whatever the
\* other starts write; a change another client made to the pod is not
\* undone by a start that read the pod before it.
C26_NoLostUpdate ==
    [][/\ \A s \in StepIDs :
            /\ StartedNext(s) => ImageOf(podContainers', s) = StepImage(s)
            /\ ImageOf(podContainers, s) = StepImage(s) =>
                  ImageOf(podContainers', s) = StepImage(s)
       /\ podAnnotations'.ext >= podAnnotations.ext
    ]_vars

\* C26 witness: both starts returned nil, one of them after a conflict
\* with the write of another client, which is still in the pod.
C26_Witness ==
    /\ \A s \in StepIDs : pc[s] = "ready" /\ ImageOf(podContainers, s) = StepImage(s)
    /\ podAnnotations.ext = 1
    /\ \A c \in StepIDs : podStatus[c].state = "none"

\* C27: for a step whose ID names no container of the pod, the Update of
\* start is made and accepted without changing the containers or the
\* annotations of the pod and start returns nil; Run then leaves
\* waitForReady only with an error, when the context is done or the pod is
\* gone, and never returns a State.
C27_OrphanStep ==
    [][/\ (pc[OrphanStep] = "update" /\ pc'[OrphanStep] # "update" /\ podExists
              /\ got[OrphanStep].fresh) =>
            /\ pc'[OrphanStep] = "ready"
            /\ podContainers' = podContainers
            /\ podAnnotations' = podAnnotations
       /\ (pc[OrphanStep] = "ready" /\ pc'[OrphanStep] # "ready") =>
            /\ ctxDone \/ ~podExists
            /\ pc'[OrphanStep] = "returned"
            /\ result'[OrphanStep].err \in WaitErrors
       /\ pc'[OrphanStep] \notin {"tail", "tailing", "terminated"}
       /\ result'[OrphanStep].returned => result'[OrphanStep].err # Nil
    ]_vars

\* C27 witness: the orphan step waits in waitForReady while the other step
\* has run to its end and returned a State.
C27_Witness ==
    /\ pc[OrphanStep] = "ready"
    /\ \E s \in StepIDs \ {OrphanStep} :
          /\ result[s].returned
          /\ result[s].err = Nil
    /\ OrphanStep \notin Range(Names(podContainers))
    /\ podExists
    /\ ~ctxDone

====
